---- MODULE Spec2Model ----
(***************************************************************************)
(* Indexed Merkle forest of monero-ads: merkle.py (the indexed Merkle      *)
(* tree, its proofs and the chain checks) and monero_server.py (the        *)
(* three-level forest, the query handlers, the update handler and the      *)
(* client-side verifier).                                                  *)
(*                                                                         *)
(* Byte strings are sequences of naturals.  An output key is <<0, k>>, the *)
(* hex encoding of a byte string b is <<1>> \o b, the SHA-256 digest of b  *)
(* is <<2>> \o b, and b + c is b \o c.  Every digest starts with 2 and is  *)
(* followed by an output key, a hex string of a digest, or two digests, so *)
(* the terms are prefix-free and the modelled hash is collision-free.      *)
(***************************************************************************)
EXTENDS Integers, Sequences, FiniteSets, TLC

VARIABLES utxos, merkle_forest, top_merkle, top_root, resp, verdict,
          tree, built, chain, asked, low, high, joined,
          pc, update_outkeys

vars == <<utxos, merkle_forest, top_merkle, top_root, resp, verdict,
          tree, built, chain, asked, low, high, joined,
          pc, update_outkeys>>

\* update_merkle run statement by statement: the statement it has reached and
\* its local list block_outkeys.
stepVars == <<pc, update_outkeys>>
serverVars == <<utxos, merkle_forest, top_merkle, top_root, resp, verdict, stepVars>>
treeVars == <<tree, built, chain, asked>>
joinVars == <<low, high, joined>>

\* ---------------------------------------------------------------- bounds
MaxIdx == 1
MaxRecs == 2
MaxPending == 2
MaxBuild == 4
MaxLeaves == 6
MaxChain == 3

\* ------------------------------------------------------- bytes and hashes
Outkey(k) == <<0, k>>

hex_encode(b) == <<1>> \o b

IsHex(s) == Len(s) > 0 /\ s[1] = 1

hex_decode(s) == Tail(s)

hash_function(b) == <<2>> \o b

\* Digests for the chains that are not taken from a tree.
DigestA == hash_function(Outkey(1))

DigestB == hash_function(Outkey(2))

DigestAB == hash_function(DigestA \o DigestB)

DigestABA == hash_function(DigestAB \o DigestA)

Max(a, b) == IF a >= b THEN a ELSE b

RECURSIVE Log2Floor(_)
Log2Floor(n) == IF n <= 1 THEN 0 ELSE 1 + Log2Floor(n \div 2)

RECURSIVE Pow2(_)
Pow2(e) == IF e = 0 THEN 1 ELSE 2 * Pow2(e - 1)

\* ------------------------------------------------------------------ Node
\* None is 0 for the references l, r, p, sib, "N" for side and <<>> for data.
NodeIdx(data) == data[2]

Node(data, prehashed, isleaf) ==
  [ val  |-> IF prehashed THEN data[1] ELSE hash_function(data[1]),
    data |-> IF isleaf THEN data[1] ELSE <<>>,
    idx  |-> NodeIdx(data),
    l |-> 0, r |-> 0, p |-> 0, sib |-> 0, side |-> "N" ]

\* ------------------------------------------------------------ MerkleTree
\* A tree is an arena of nodes, the ids of its leaves in order, and its root.
MerkleTree(leaves) ==
  [ nodes  |-> [i \in 1..Len(leaves) |-> Node(leaves[i], FALSE, TRUE)],
    leaves |-> [i \in 1..Len(leaves) |-> i],
    root   |-> 0 ]

PairNode(t, a, b) ==
  [ Node(<<t.nodes[a].val \o t.nodes[b].val,
           Max(t.nodes[a].idx, t.nodes[b].idx)>>, FALSE, FALSE)
      EXCEPT !.l = a, !.r = b ]

\* newnode over (a, b) is appended to the arena and the back-links are set.
Link(t, a, b) ==
  LET id == Len(t.nodes) + 1
      nodes1 == Append(t.nodes, PairNode(t, a, b))
  IN  [ t EXCEPT !.nodes =
          [ nodes1 EXCEPT ![a] = [@ EXCEPT !.side = "L", !.p = id, !.sib = b],
                          ![b] = [@ EXCEPT !.side = "R", !.p = id, !.sib = a] ] ]

RECURSIVE BuildPairs(_, _, _, _)
BuildPairs(t, leaves, i, new) ==
  IF i >= Len(leaves) THEN [t |-> t, new |-> new]
  ELSE BuildPairs(Link(t, leaves[i + 1], leaves[i + 2]), leaves, i + 2,
                  Append(new, Len(t.nodes) + 1))

_build(t, leaves) ==
  LET isOdd == Len(leaves) % 2 = 1
      even  == IF isOdd THEN SubSeq(leaves, 1, Len(leaves) - 1) ELSE leaves
      s     == BuildPairs(t, even, 0, <<>>)
  IN  [ t |-> s.t,
        new |-> IF isOdd THEN Append(s.new, leaves[Len(leaves)]) ELSE s.new ]

RECURSIVE BuildLoop(_, _)
BuildLoop(t, layer) ==
  IF Len(layer) = 1 THEN [t EXCEPT !.root = layer[1]]
  ELSE LET s == _build(t, layer) IN BuildLoop(s.t, s.new)

\* build raises MerkleError on an empty leaf list; no caller passes one.
build(t) == IF t.leaves = <<>> THEN t ELSE BuildLoop(t, t.leaves)

RECURSIVE WholeLoop(_, _, _, _)
WholeLoop(t, the_node, loose_leaves, subtrees) ==
  IF loose_leaves # 0
  THEN WholeLoop(t, t.nodes[the_node].r,
                 loose_leaves - Pow2(Log2Floor(loose_leaves)),
                 Append(subtrees, t.nodes[the_node].l))
  ELSE Append(subtrees, the_node)

_get_whole_subtrees(t) ==
  WholeLoop(t, t.root, Len(t.leaves) - Pow2(Log2Floor(Len(t.leaves))), <<>>)

RECURSIVE AdjustLoop(_, _, _, _)
AdjustLoop(t, subtrees, k, new_node) ==
  IF k = 0 THEN [t EXCEPT !.root = new_node]
  ELSE AdjustLoop(Link(t, subtrees[k], new_node), subtrees, k - 1,
                  Len(t.nodes) + 1)

\* The new leaf is paired with the old root, whatever the leaf count.
add_adjust_under_root(t, data) ==
  LET id == Len(t.nodes) + 1
      t1 == [ t EXCEPT !.nodes = Append(@, Node(data, FALSE, TRUE)),
                       !.leaves = Append(@, id) ]
  IN  AdjustLoop(t1, <<t.root>>, 1, id)

add_adjust(t, data) ==
  LET subtrees == _get_whole_subtrees(t)
      id == Len(t.nodes) + 1
      t1 == [ t EXCEPT !.nodes = Append(@, Node(data, FALSE, TRUE)),
                       !.leaves = Append(@, id) ]
  IN  AdjustLoop(t1, subtrees, Len(subtrees), id)

\* Python list indexing: -n..n-1 are in range, a negative index counts from
\* the end.
InRange(n, index) == -n <= index /\ index < n

At(n, index) == IF index < 0 THEN n + index + 1 ELSE index + 1

\* The chain names each sibling by the climbing node's own side.
RECURSIVE ProofWalkOwnSide(_, _, _)
ProofWalkOwnSide(t, this, c) ==
  IF t.nodes[this].p # 0
  THEN LET sib == t.nodes[t.nodes[this].sib]
       IN  ProofWalkOwnSide(t, t.nodes[this].p,
                            Append(c, <<<<sib.val, sib.idx>>, t.nodes[this].side>>))
  ELSE Append(c, <<<<t.nodes[this].val, t.nodes[this].idx>>, "ROOT">>)

RECURSIVE ProofWalk(_, _, _)
ProofWalk(t, this, c) ==
  IF t.nodes[this].p # 0
  THEN LET sib == t.nodes[t.nodes[this].sib]
       IN  ProofWalk(t, t.nodes[this].p,
                     Append(c, <<<<sib.val, sib.idx>>, sib.side>>))
  ELSE Append(c, <<<<t.nodes[this].val, t.nodes[this].idx>>, "ROOT">>)

\* _get_proof raises IndexError out of range: the empty chain stands for it.
_get_proof(t, index) ==
  IF ~InRange(Len(t.leaves), index) THEN <<>>
  ELSE LET this == t.leaves[At(Len(t.leaves), index)]
       IN  ProofWalk(t, this,
                     << <<<<t.nodes[this].val, t.nodes[this].idx>>, "SELF">> >>)

HexEntry(i) == <<<<hex_encode(i[1][1]), i[1][2]>>, i[2]>>

get_proof(t, index) ==
  LET c == _get_proof(t, index) IN [j \in 1..Len(c) |-> HexEntry(c[j])]

\* --------------------------------------------------------- chain checks
\* _check_proof over entries (digest, side); the result is the returned link
\* or the MerkleError raised.
StepLink(link, e) ==
  IF e[2] = "R" THEN hash_function(link \o e[1]) ELSE hash_function(e[1] \o link)

RECURSIVE CheckLoop(_, _, _)
CheckLoop(c, i, link) ==
  IF i > Len(c) - 1
  THEN IF link = c[Len(c)][1] THEN [status |-> "ok", link |-> link]
       ELSE [status |-> "InvalidChain", link |-> link]
  ELSE IF c[i][2] \in {"L", "R"} THEN CheckLoop(c, i + 1, StepLink(link, c[i]))
       ELSE [status |-> "InvalidSide", link |-> link]

\* The asserted root is returned without recomputing the links.
_check_proof_asserted(c) == [status |-> "ok", link |-> c[Len(c)][1]]

_check_proof(c) == CheckLoop(c, 2, c[1][1])

\* check_proof decodes the hex digests, checks, and encodes the result.
check_proof(c) ==
  IF \E j \in 1..Len(c) : ~IsHex(c[j][1][1])
  THEN [status |-> "TypeError", link |-> <<>>]
  ELSE LET r == _check_proof([j \in 1..Len(c) |-> <<hex_decode(c[j][1][1]), c[j][2]>>])
       IN  [r EXCEPT !.link = hex_encode(@)]

\* The chains are joined without the test that they connect.
join_chains_unchecked(lo, hi) ==
  SubSeq(lo, 1, Len(lo) - 1) \o SubSeq(hi, 2, Len(hi))

\* join_chains raises MerkleError when the chains do not connect: <<>>.
join_chains(lo, hi) ==
  IF lo[Len(lo)][1] # hi[1][1] THEN <<>>
  ELSE SubSeq(lo, 1, Len(lo) - 1) \o SubSeq(hi, 2, Len(hi))

\* ------------------------------------------------------------ bisect
\* bisect.bisect_left(a, x) with lo = 0 and hi = len(a), positions 0-based.
RECURSIVE BisectLoop(_, _, _, _)
BisectLoop(a, x, lo, hi) ==
  IF lo < hi
  THEN LET mid == (lo + hi) \div 2
       IN  IF a[mid + 1] < x THEN BisectLoop(a, x, mid + 1, hi)
           ELSE BisectLoop(a, x, lo, mid)
  ELSE lo

bisect_left(a, x) == BisectLoop(a, x, 0, Len(a))

\* find_ge over (data, idx) pairs: the item and its position, or ValueError.
find_ge(my_array, target) ==
  LET snd == [j \in 1..Len(my_array) |-> my_array[j][2]]
      i == bisect_left(snd, target)
  IN  IF i = Len(snd) THEN [raised |-> TRUE, item |-> <<>>, i |-> i]
      ELSE [raised |-> FALSE, item |-> my_array[i + 1], i |-> i]

\* ------------------------------------------------------------ the forest
\* merkle_forest maps the hex digest of a root to the tree with that root.
Put(f, k, v) == [x \in (DOMAIN f) \cup {k} |-> IF x = k THEN v ELSE f[x]]

\* The superseded entry is left in the forest.
DelKeepsEntry(f, k) == f

Del(f, k) == [x \in (DOMAIN f) \ {k} |-> f[x]]

RootPair(t) == <<hex_encode(t.nodes[t.root].val), t.nodes[t.root].idx>>

\* The length of the leading run of records that agree with the first record
\* in the given field (1: block_hash, 2: tx_hash).
\* Only the first record is taken, whatever follows it.
RunLenFirstOnly(recs, field, n) == 1

RECURSIVE RunLen(_, _, _)
RunLen(recs, field, n) ==
  IF n < Len(recs) /\ recs[n + 1][field] = recs[1][field]
  THEN RunLen(recs, field, n + 1)
  ELSE n

Rest(recs, n) == SubSeq(recs, n + 1, Len(recs))

\* The tree is stored in the forest under the hex digest of its root; leaf is
\* the (root, idx) pair the caller appends to the leaves of the level above.
Store(forest, t, root) ==
  [forest |-> Put(forest, root[1], t), leaf |-> root, tree |-> t]

StoreTree(forest, t) == Store(forest, t, RootPair(t))

\* tx_to_merkle: the forest with the transaction's tree, and the leaf it
\* contributes to the block's tree.
tx_to_merkle(forest, tx_outkeys) ==
  StoreTree(forest, build(MerkleTree([j \in 1..Len(tx_outkeys) |->
                                        <<tx_outkeys[j][3], tx_outkeys[j][4]>>])))

RECURSIVE TxLoop(_, _, _)
TxLoop(forest, block_outkeys, block_merkle_leaves) ==
  IF block_outkeys = <<>>
  THEN [forest |-> forest, leaves |-> block_merkle_leaves]
  ELSE LET n == RunLen(block_outkeys, 2, 1)
           next(r) == TxLoop(r.forest, Rest(block_outkeys, n),
                             Append(block_merkle_leaves, r.leaf))
       IN  next(tx_to_merkle(forest, SubSeq(block_outkeys, 1, n)))

block_to_merkle(forest, block_outkeys) ==
  LET block_merkle(s) == StoreTree(s.forest, build(MerkleTree(s.leaves)))
  IN  block_merkle(TxLoop(forest, block_outkeys, <<>>))

RECURSIVE BlockLoop(_, _, _)
BlockLoop(forest, new_blocks, top_merkle_leaves) ==
  IF new_blocks = <<>>
  THEN [forest |-> forest, leaves |-> top_merkle_leaves]
  ELSE LET n == RunLen(new_blocks, 1, 1)
           next(r) == BlockLoop(r.forest, Rest(new_blocks, n),
                                Append(top_merkle_leaves, r.leaf))
       IN  next(block_to_merkle(forest, SubSeq(new_blocks, 1, n)))

\* scan_over_new_blocks: the forest, the top tree and the top root built from
\* the records of the first read.
scan_over_new_blocks(new_blocks) ==
  LET top(s) == StoreTree(s.forest, build(MerkleTree(s.leaves)))
      result(r) == [forest |-> r.forest, top_merkle |-> r.tree, top_root |-> r.leaf]
  IN  result(top(BlockLoop(<<>>, new_blocks, <<>>)))

\* ---------------------------------------------------------- the handlers
\* What a handler returned: op is the handler, kind the shape of its answer
\* ("found", "results", "root", "Failure", or the exception that ended it), q
\* the request, root the top root the handler read.
Response(op, kind, q, found, proof, results, root) ==
  [op |-> op, kind |-> kind, q |-> q, found |-> found, proof |-> proof,
   results |-> results, root |-> root]

LeafPairs(t) == [j \in 1..Len(t.leaves) |->
                   <<t.nodes[t.leaves[j]].data, t.nodes[t.leaves[j]].idx>>]

InQueryRange(req_gidx, root) == ~(req_gidx < 0 \/ req_gidx > root[2])

\* The else-branch of getoutput and getoutputs: the descent through the three
\* levels.  raised names the exception that ends the handler, if any; levels
\* lists the tree searched and the position found at the top, block and
\* transaction level.
Descend(forest, top, req_gidx) ==
  LET failed(e) == [raised |-> e, found |-> <<>>, proof |-> <<>>, levels |-> <<>>]
      b == find_ge(LeafPairs(top), req_gidx)
  IN  IF b.raised THEN failed("ValueError")
      ELSE IF b.item[1] \notin DOMAIN forest THEN failed("KeyError")
      ELSE
      LET blk_proof == get_proof(top, b.i)
          block_merkle == forest[b.item[1]]
          x == find_ge(LeafPairs(block_merkle), req_gidx)
      IN  IF x.raised THEN failed("ValueError")
          ELSE IF x.item[1] \notin DOMAIN forest THEN failed("KeyError")
          ELSE
          LET tx_proof == get_proof(block_merkle, x.i)
              tx_merkle == forest[x.item[1]]
              o == find_ge(LeafPairs(tx_merkle), req_gidx)
          IN  IF o.raised THEN failed("ValueError")
              ELSE [ raised |-> "", found |-> o.item,
                     proof |-> <<get_proof(tx_merkle, o.i), tx_proof, blk_proof>>,
                     levels |-> << <<top, b.i>>, <<block_merkle, x.i>>,
                                   <<tx_merkle, o.i>> >> ]

getoutput(forest, top, root, req_gidx) ==
  IF ~InQueryRange(req_gidx, root)
  THEN Response("getout", "Failure", req_gidx, <<>>, <<>>, <<>>, root)
  ELSE LET d == Descend(forest, top, req_gidx)
       IN  IF d.raised # ""
           THEN Response("getout", d.raised, req_gidx, <<>>, <<>>, <<>>, root)
           ELSE Response("getout", "found", req_gidx, d.found, d.proof, <<>>, root)

RECURSIVE OutputsLoop(_, _, _, _, _, _)
OutputsLoop(forest, top, root, req_gidxs, k, query_results) ==
  IF k > Len(req_gidxs)
  THEN Response("getouts", "results", req_gidxs, <<>>, <<>>, query_results, root)
  ELSE IF ~InQueryRange(req_gidxs[k], root)
  THEN Response("getouts", "Failure", req_gidxs, <<>>, <<>>, <<>>, root)
  ELSE LET d == Descend(forest, top, req_gidxs[k])
       IN  IF d.raised # ""
           THEN Response("getouts", d.raised, req_gidxs, <<>>, <<>>, <<>>, root)
           ELSE OutputsLoop(forest, top, root, req_gidxs, k + 1,
                            Append(query_results, [found |-> d.found, proof |-> d.proof]))

getoutputs(forest, top, root, req_gidxs) ==
  OutputsLoop(forest, top, root, req_gidxs, 1, <<>>)

\* check_path, run by the client against the top root it knows: "True",
\* "False", or the MerkleError that check_proof raises.
check_path(found_output, path_proof, root) ==
  LET outproof == path_proof[1]
      txproof == path_proof[2]
      blkproof == path_proof[3]
  IN  IF <<hex_encode(hash_function(found_output[1])), found_output[2]>> # outproof[1][1]
      THEN "False"
      ELSE IF check_proof(outproof).status # "ok" THEN "MerkleError"
      ELSE IF <<hex_encode(hash_function(outproof[Len(outproof)][1][1])),
                outproof[Len(outproof)][1][2]>> # txproof[1][1]
      THEN "False"
      ELSE IF check_proof(txproof).status # "ok" THEN "MerkleError"
      ELSE IF <<hex_encode(hash_function(txproof[Len(txproof)][1][1])),
                txproof[Len(txproof)][1][2]>> # blkproof[1][1]
      THEN "False"
      ELSE IF check_proof(blkproof).status # "ok" THEN "MerkleError"
      ELSE IF blkproof[Len(blkproof)][1] = root THEN "True" ELSE "False"

\* fetch_children_hash: (lhash, rhash, ldata, rdata) of the node that path
\* leads to, None being <<>>.
RECURSIVE FollowPath(_, _, _, _)
FollowPath(m, the_node, path, k) ==
  IF k > Len(path) THEN the_node
  ELSE IF m.nodes[the_node].l = 0 /\ m.nodes[the_node].r = 0 THEN the_node
  ELSE FollowPath(m, IF path[k] = "l" THEN m.nodes[the_node].l
                     ELSE m.nodes[the_node].r, path, k + 1)

ChildHash(m, c) == IF c # 0 THEN hex_encode(m.nodes[c].val) ELSE <<>>

ChildData(m, c) == IF c # 0 THEN m.nodes[c].data ELSE <<>>

fetch_children_hash(m, path) ==
  IF Len(m.leaves) = 1
  THEN <<hex_encode(m.nodes[m.root].val), hex_encode(m.nodes[m.root].val),
         m.nodes[m.root].data, m.nodes[m.root].data>>
  ELSE LET children(n) == <<ChildHash(m, m.nodes[n].l), ChildHash(m, m.nodes[n].r),
                            ChildData(m, m.nodes[n].l), ChildData(m, m.nodes[n].r)>>
       IN  children(FollowPath(m, m.root, path, 1))

\* getchildren with no "root" argument: the children under the top root.
getchildren(forest, root, path) ==
  IF root[1] \notin DOMAIN forest
  THEN Response("getchildren", "KeyError", path, <<>>, <<>>, <<>>, root)
  ELSE Response("getchildren", "data", path, <<>>, <<>>,
                fetch_children_hash(forest[root[1]], path), root)

\* ------------------------------------------------- the tree on its own
\* A tree is built over a leaf sequence and extended by add_adjust; get_proof
\* is asked for one leaf at a time.  The other variables are idle.
NoTree == [nodes |-> <<>>, leaves |-> <<>>, root |-> 0]

NoResp == Response("none", "none", 0, <<>>, <<>>, <<>>, <<>>)

\* What check_path answered, the triple it was given, and whether a digest of
\* that triple had been replaced.
NoVerdict == [tampered |-> FALSE, result |-> "none", proof |-> <<>>]

LeafChoices == {<<Outkey(1), 0>>, <<Outkey(2), 1>>, <<Outkey(1), 2>>}

RECURSIVE SeqsUpTo(_, _)
SeqsUpTo(S, n) ==
  IF n = 0 THEN {<<>>}
  ELSE LET shorter == SeqsUpTo(S, n - 1)
       IN  shorter \cup {Append(s, x) : s \in {q \in shorter : Len(q) = n - 1}, x \in S}

\* No update_merkle call is under way.
StepIdle == pc = "idle" /\ update_outkeys = <<>>

ServerIdle ==
  /\ utxos = <<>> /\ merkle_forest = <<>> /\ top_merkle = NoTree
  /\ top_root = <<>> /\ resp = NoResp /\ verdict = NoVerdict
  /\ StepIdle

\* The index last passed to get_proof, if the chain is the answer to a call.
NoCall == [made |-> FALSE, index |-> 0]

TreeIdle == tree = NoTree /\ built = 0 /\ chain = <<>> /\ asked = NoCall

JoinIdle == low = <<>> /\ high = <<>> /\ joined = <<>>

TreeInit ==
  /\ \E S \in SeqsUpTo(LeafChoices, MaxBuild) \ {<<>>} :
        /\ tree = build(MerkleTree(S))
        /\ built = Len(S)
  /\ chain = <<>>
  /\ asked = NoCall
  /\ ServerIdle /\ JoinIdle

AddAdjust(x) ==
  /\ Len(tree.leaves) < MaxLeaves
  /\ tree' = add_adjust(tree, x)
  /\ chain' = <<>>
  /\ asked' = NoCall
  /\ UNCHANGED <<built, serverVars, joinVars>>

GetProof(i) ==
  /\ chain' = get_proof(tree, i)
  /\ asked' = [made |-> TRUE, index |-> i]
  /\ UNCHANGED <<tree, built, serverVars, joinVars>>

\* The indices passed to get_proof: every position of the tree, every negative
\* index down to one below -n, and n itself.
IndexChoices(t) == (-(Len(t.leaves) + 1))..Len(t.leaves)

TreeNext ==
  \/ \E x \in LeafChoices : AddAdjust(x)
  \/ \E i \in IndexChoices(tree) : GetProof(i)

SpecTree == TreeInit /\ [][TreeNext]_vars

\* ------------------------------------------------------------ the server
\* Output records (block_hash, tx_hash, outkey, idx).  The hashes are only
\* compared with those of the neighbouring records of the same read, so the
\* first record of a read carries block_hash 1 and tx_hash 1.
BlockHashes == {1, 2}

TxHashes == {1, 2}

OutKeys == {1, 2}

Records == {<<b, t, Outkey(k), i>> :
              b \in BlockHashes, t \in TxHashes, k \in OutKeys, i \in 0..MaxIdx}

\* The reads of out_table ORDER BY idx with exactly n rows.
RECURSIVE RowsOfLen(_)
RowsOfLen(n) ==
  IF n = 0 THEN {<<>>}
  ELSE {Append(s, r) : s \in RowsOfLen(n - 1),
                       r \in {x \in Records :
                                IF n = 1 THEN x[1] = 1 /\ x[2] = 1 ELSE TRUE}}

Sorted(s) == \A j \in 1..(Len(s) - 1) : s[j][4] <= s[j + 1][4]

Reads(n) == {s \in UNION {RowsOfLen(k) : k \in 0..n} : Sorted(s)}

QChoices == (-1)..(MaxIdx + 1)

\* The index lists sent to /getouts: in range first or out of range first,
\* followed by an index in range or out of range.
BatchChoices == {<<a, b>> : a \in {-1, 0, MaxIdx}, b \in {0, MaxIdx + 1}}

\* main: the first read is scanned into the forest, the second read is the
\* pending buffer.
Init ==
  /\ \E first \in Reads(MaxRecs) \ {<<>>} :
        LET start(s) == /\ merkle_forest = s.forest
                        /\ top_merkle = s.top_merkle
                        /\ top_root = s.top_root
        IN  start(scan_over_new_blocks(first))
  /\ utxos \in Reads(MaxPending)
  /\ resp = NoResp
  /\ verdict = NoVerdict
  /\ StepIdle
  /\ TreeIdle /\ JoinIdle

\* update_merkle.
Update ==
  /\ IF utxos # <<>>
     THEN LET n == RunLen(utxos, 1, 1)
              install(r) ==
                /\ utxos' = Rest(utxos, n)
                /\ top_merkle' = r.tree
                /\ top_root' = r.leaf
                /\ merkle_forest' = r.forest
                /\ resp' = Response("update", "root", 0, <<>>, <<>>, <<>>, r.leaf)
              append(b) == install(StoreTree(b.forest, add_adjust(top_merkle, b.leaf)))
          IN  append(block_to_merkle(Del(merkle_forest, top_root[1]),
                                     SubSeq(utxos, 1, n)))
     ELSE /\ resp' = Response("update", "Failure", 0, <<>>, <<>>, <<>>, top_root)
          /\ UNCHANGED <<utxos, merkle_forest, top_merkle, top_root>>
  /\ UNCHANGED <<verdict, treeVars, joinVars, stepVars>>

GetRoot ==
  /\ resp' = Response("getroot", "root", 0, <<>>, <<>>, <<>>, top_root)
  /\ UNCHANGED <<utxos, merkle_forest, top_merkle, top_root, verdict, treeVars, joinVars, stepVars>>

GetOutput(q) ==
  /\ resp' = getoutput(merkle_forest, top_merkle, top_root, q)
  /\ UNCHANGED <<utxos, merkle_forest, top_merkle, top_root, verdict, treeVars, joinVars, stepVars>>

GetOutputs(qs) ==
  /\ resp' = getoutputs(merkle_forest, top_merkle, top_root, qs)
  /\ UNCHANGED <<utxos, merkle_forest, top_merkle, top_root, verdict, treeVars, joinVars, stepVars>>

Next ==
  \/ Update
  \/ GetRoot
  \/ \E q \in QChoices : GetOutput(q)
  \/ \E qs \in BatchChoices : GetOutputs(qs)

Spec == Init /\ [][Next]_vars

\* --------------------------------------- update_merkle among the readers
\* The statements of update_merkle taken one at a time, with the read
\* handlers getroot, getoutput and getchildren run between them.
PathChoices == {<<>>, <<"l">>, <<"r">>}

GetChildren(path) ==
  /\ resp' = getchildren(merkle_forest, top_root, path)
  /\ UNCHANGED <<utxos, merkle_forest, top_merkle, top_root, verdict, treeVars, joinVars, stepVars>>

\* if utxos: ... else: return jsonify({"Failure": 0})
UpdateEmpty ==
  /\ pc = "idle" /\ utxos = <<>>
  /\ resp' = Response("update", "Failure", 0, <<>>, <<>>, <<>>, top_root)
  /\ UNCHANGED <<utxos, merkle_forest, top_merkle, top_root, verdict, treeVars, joinVars, stepVars>>

\* del merkle_forest[top_root[0]]
UpdateDelete ==
  /\ pc = "idle" /\ utxos # <<>>
  /\ merkle_forest' = Del(merkle_forest, top_root[1])
  /\ pc' = "deleted"
  /\ UNCHANGED <<utxos, top_merkle, top_root, resp, verdict, update_outkeys, treeVars, joinVars>>

\* The records of the leading block are popped into block_outkeys.
UpdatePop ==
  /\ pc = "deleted"
  /\ LET n == RunLen(utxos, 1, 1)
     IN  /\ update_outkeys' = SubSeq(utxos, 1, n)
         /\ utxos' = Rest(utxos, n)
  /\ pc' = "popped"
  /\ UNCHANGED <<merkle_forest, top_merkle, top_root, resp, verdict, treeVars, joinVars>>

\* top_merkle.add_adjust(block_to_merkle(block_outkeys))
UpdateAdjust ==
  /\ pc = "popped"
  /\ LET append(b) == /\ merkle_forest' = b.forest
                      /\ top_merkle' = add_adjust(top_merkle, b.leaf)
     IN  append(block_to_merkle(merkle_forest, update_outkeys))
  /\ update_outkeys' = <<>>
  /\ pc' = "adjusted"
  /\ UNCHANGED <<utxos, top_root, resp, verdict, treeVars, joinVars>>

\* top_root = (hex of top_merkle.root.val, top_merkle.root.idx)
UpdateRoot ==
  /\ pc = "adjusted"
  /\ top_root' = RootPair(top_merkle)
  /\ pc' = "rooted"
  /\ UNCHANGED <<utxos, merkle_forest, top_merkle, resp, verdict, update_outkeys, treeVars, joinVars>>

\* merkle_forest[hex of top_merkle.root.val] = top_merkle; return getroot()
UpdateInstall ==
  /\ pc = "rooted"
  /\ merkle_forest' = Put(merkle_forest, RootPair(top_merkle)[1], top_merkle)
  /\ resp' = Response("update", "root", 0, <<>>, <<>>, <<>>, top_root)
  /\ pc' = "idle"
  /\ UNCHANGED <<utxos, top_merkle, top_root, verdict, update_outkeys, treeVars, joinVars>>

StepNext ==
  \/ UpdateEmpty
  \/ UpdateDelete
  \/ UpdatePop
  \/ UpdateAdjust
  \/ UpdateRoot
  \/ UpdateInstall
  \/ GetRoot
  \/ \E q \in QChoices : GetOutput(q)
  \/ \E path \in PathChoices : GetChildren(path)

SpecSteps == Init /\ [][StepNext]_vars

\* C13: with the read handlers run between the statements of update_merkle,
\* the forest holds at every point an entry keyed by the current top_root
\* digest, and getchildren with no root finds it.
TopRootAlwaysKeyed ==
  /\ top_root[1] \in DOMAIN merkle_forest
  /\ resp.op = "getchildren" => resp.kind = "data"

\* A step of update_merkle that found records pending.
UpdateStep == utxos # <<>> /\ utxos' # utxos

\* The last response is that of /getout, answered from the current forest.
FreshGetOut == resp.op = "getout" /\ resp.root = top_root

\* C1: after the initial build and any number of updates, a query for q in
\* 0..top_root.idx returns an output and a proof triple that check_path
\* accepts against the current top root.
HierarchicalSoundness ==
  (FreshGetOut /\ InQueryRange(resp.q, top_root)) =>
    /\ resp.kind = "found"
    /\ check_path(resp.found, resp.proof, top_root) = "True"

\* Position i (0-based) holds the leftmost pair of a whose idx is >= q.
Leftmost(a, q, i) ==
  /\ i < Len(a) /\ a[i + 1][2] >= q
  /\ \A j \in 1..i : a[j][2] < q

\* C3: for a valid q, find_ge selects at each level the leftmost leaf whose
\* idx is >= q, the returned output has idx >= q, and the transaction tree
\* searched holds no leaf with idx in [q, returned idx).
QueryCorrectness ==
  (FreshGetOut /\ InQueryRange(resp.q, top_root)) =>
    LET d == Descend(merkle_forest, top_merkle, resp.q)
    IN  /\ d.raised = ""
        /\ \A lv \in 1..3 : Leftmost(LeafPairs(d.levels[lv][1]), resp.q, d.levels[lv][2])
        /\ resp.kind = "found"
        /\ resp.found[2] >= resp.q
        /\ \A pr \in {LeafPairs(d.levels[3][1])[j] : j \in 1..Len(d.levels[3][1].leaves)} :
              ~(resp.q <= pr[2] /\ pr[2] < resp.found[2])

TopIdxIncreases == [][UpdateStep => top_root'[2] > top_root[2]]_vars

\* The leading records of recs that carry the block_hash of the first one.
LeadingBlock(recs) ==
  CHOOSE m \in 1..Len(recs) :
    /\ \A j \in 1..m : recs[j][1] = recs[1][1]
    /\ m = Len(recs) \/ recs[m + 1][1] # recs[1][1]

\* C9: with records pending, one update removes exactly the leading run of
\* the first record's block_hash, appends exactly one leaf to the top tree and
\* keeps the other records in order; with none pending it answers Failure and
\* changes nothing.
UpdateConsumesOneBlock ==
  [][/\ UpdateStep =>
          /\ utxos' = SubSeq(utxos, LeadingBlock(utxos) + 1, Len(utxos))
          /\ Len(top_merkle'.leaves) = Len(top_merkle.leaves) + 1
          /\ SubSeq(LeafPairs(top_merkle'), 1, Len(top_merkle.leaves)) = LeafPairs(top_merkle)
          /\ resp'.op = "update" /\ resp'.kind = "root" /\ resp'.root = top_root'
     /\ (utxos = <<>> /\ resp'.op = "update" /\ resp' # resp) =>
          /\ resp'.kind = "Failure"
          /\ UNCHANGED <<utxos, merkle_forest, top_merkle, top_root>>]_vars

\* An update took a run of one record and left the second pending record.
UpdateConsumesOneBlockWitness ==
  /\ resp.op = "update" /\ resp.kind = "root" /\ Len(utxos) = 1
  /\ Len(top_merkle.leaves) >= 2

\* C10: /getout answers Failure exactly for q < 0 or q > top_root.idx, and
\* /getouts answers Failure when its list holds such a q and does not when it
\* holds none.
OutOfRangeFailure ==
  /\ resp.op = "getout" =>
        (resp.kind = "Failure" <=> ~InQueryRange(resp.q, resp.root))
  /\ resp.op = "getouts" =>
        (resp.kind = "Failure" <=>
           \E j \in 1..Len(resp.q) : ~InQueryRange(resp.q[j], resp.root))

\* ------------------------------------------------------------ the client
\* A client session: the server is updated some number of times, the client
\* sends one /getout request and runs check_path on the answer, as received
\* or with one digest of one chain replaced.
Tamper(proof, c, j, d) == [proof EXCEPT ![c][j][1][1] = hex_encode(d)]

ClientUpdate == resp.op \in {"none", "update"} /\ Update

ClientQuery(q) == resp.op \in {"none", "update"} /\ GetOutput(q)

Verify ==
  /\ resp.op = "getout" /\ resp.kind = "found" /\ verdict = NoVerdict
  /\ verdict' = [tampered |-> FALSE,
                 result |-> check_path(resp.found, resp.proof, resp.root),
                 proof |-> resp.proof]
  /\ UNCHANGED <<utxos, merkle_forest, top_merkle, top_root, resp, treeVars, joinVars, stepVars>>

VerifyTampered(c, j, d) ==
  /\ resp.op = "getout" /\ resp.kind = "found" /\ verdict = NoVerdict
  /\ j <= Len(resp.proof[c])
  /\ hex_encode(d) # resp.proof[c][j][1][1]
  /\ verdict' = [tampered |-> TRUE,
                 result |-> check_path(resp.found, Tamper(resp.proof, c, j, d), resp.root),
                 proof |-> Tamper(resp.proof, c, j, d)]
  /\ UNCHANGED <<utxos, merkle_forest, top_merkle, top_root, resp, treeVars, joinVars, stepVars>>

\* check_path on the answer with the side of one middle entry replaced.
TamperSide(proof, c, j, sd) == [proof EXCEPT ![c][j][2] = sd]

VerifyBadSide(c, j, sd) ==
  /\ resp.op = "getout" /\ resp.kind = "found" /\ verdict = NoVerdict
  /\ 1 < j /\ j < Len(resp.proof[c])
  /\ sd # resp.proof[c][j][2]
  /\ verdict' = [tampered |-> FALSE,
                 result |-> check_path(resp.found, TamperSide(resp.proof, c, j, sd), resp.root),
                 proof |-> TamperSide(resp.proof, c, j, sd)]
  /\ UNCHANGED <<utxos, merkle_forest, top_merkle, top_root, resp, treeVars, joinVars, stepVars>>

ClientNext ==
  \/ ClientUpdate
  \/ \E q \in QChoices : ClientQuery(q)
  \/ Verify
  \/ \E c \in 1..3, j \in 1..4 :
       \E d \in {DigestA, DigestB, DigestAB} \cup
                 (IF resp.kind = "found"
                  THEN {hex_decode(resp.proof[k][m][1][1]) :
                          k \in 1..3, m \in 1..2}
                  ELSE {}) :
         VerifyTampered(c, j, d)
  \/ \E c \in 1..3, j \in 2..3, sd \in {"L", "R", "SELF"} : VerifyBadSide(c, j, sd)

SpecClient == Init /\ [][ClientNext]_vars

\* C5: check_path does not accept a returned triple in which one digest of
\* one chain was replaced by a different digest.
TamperedProofRejected == verdict.tampered => verdict.result # "True"

\* check_proof raised on a tampered chain of a proof from a top tree that an
\* update has extended.
TamperedProofRejectedWitness ==
  /\ verdict.tampered /\ verdict.result = "MerkleError"
  /\ Len(top_merkle.leaves) >= 2
  /\ check_path(resp.found, resp.proof, resp.root) = "True"

\* The single-chain check raises InvalidSide or InvalidChain on the chain.
BadChain(c) == check_proof(c).status \in {"InvalidSide", "InvalidChain"}

\* The (hex digest, idx) pair that a chain's ROOT entry contributes as the
\* SELF entry of the chain one level up.
LeafOfRoot(c) == <<hex_encode(hash_function(c[Len(c)][1][1])), c[Len(c)][1][2]>>

\* C12: given a triple with a chain that has a middle entry of a side other
\* than L and R, or that recomputes to a digest other than its ROOT digest,
\* check_path ends with the result False, not with an error; and it returns
\* True only if every check of the hierarchical procedure passes, the last
\* entry of blk_proof being the known top root included.
VerifierReturnsFalse ==
  verdict.result # "none" =>
    /\ (\E c \in 1..3 : BadChain(verdict.proof[c])) => verdict.result = "False"
    /\ verdict.result = "True" =>
          /\ \A c \in 1..3 : check_proof(verdict.proof[c]).status = "ok"
          /\ <<hex_encode(hash_function(resp.found[1])), resp.found[2]>>
                = verdict.proof[1][1][1]
          /\ LeafOfRoot(verdict.proof[1]) = verdict.proof[2][1][1]
          /\ LeafOfRoot(verdict.proof[2]) = verdict.proof[3][1][1]
          /\ verdict.proof[3][Len(verdict.proof[3])][1] = resp.root

\* The leaf sequence of a tree, as given to the constructor.
LeafData(t) == [i \in 1..Len(t.leaves) |->
                  <<t.nodes[t.leaves[i]].data, t.nodes[t.leaves[i]].idx>>]

\* The left/right structure below node n with the digest and idx of each node.
RECURSIVE Shape(_, _)
Shape(t, n) ==
  IF t.nodes[n].l = 0 /\ t.nodes[n].r = 0
  THEN <<t.nodes[n].val, t.nodes[n].idx>>
  ELSE <<t.nodes[n].val, t.nodes[n].idx, Shape(t, t.nodes[n].l), Shape(t, t.nodes[n].r)>>

\* C2: a tree built over S and extended by add_adjust(x1), ..., add_adjust(xk)
\* has the shape, the root digest and the root idx of the tree built from
\* scratch over S followed by x1..xk.
AppendEquivalence ==
  tree # NoTree =>
    LET scratch == build(MerkleTree(LeafData(tree)))
    IN  /\ Shape(tree, tree.root) = Shape(scratch, scratch.root)
        /\ tree.nodes[tree.root].val = scratch.nodes[scratch.root].val
        /\ tree.nodes[tree.root].idx = scratch.nodes[scratch.root].idx

\* Three leaves appended to a build of three: the tree went through five
\* leaves, where the rebuilt tree promotes the fifth leaf twice.
AppendEquivalenceWitness ==
  /\ tree # NoTree /\ built = 3 /\ Len(tree.leaves) = 6
  /\ tree.nodes[tree.root].idx = 2

\* C4: get_proof(i) starts with SELF, ends with ROOT, and check_proof accepts
\* it and returns the root digest of the tree.
ProofSoundness ==
  tree # NoTree =>
    \A i \in 0..(Len(tree.leaves) - 1) :
      LET c == get_proof(tree, i)
          r == check_proof(c)
      IN  /\ Len(c) >= 2
          /\ c[1][2] = "SELF" /\ c[Len(c)][2] = "ROOT"
          /\ r.status = "ok"
          /\ r.link = hex_encode(tree.nodes[tree.root].val)

\* A proof of the promoted third leaf of a three-leaf tree grown by
\* add_adjust: one sibling entry only.
ProofSoundnessWitness ==
  /\ tree # NoTree /\ built = 2 /\ Len(tree.leaves) = 3
  /\ chain = get_proof(tree, 2) /\ Len(chain) = 3
  /\ check_proof(chain).status = "ok"

\* C11: for a tree with n leaves, get_proof(i) returns a chain only for
\* 0 <= i < n and fails for every other i, every negative i included.
ProofIndexInRange ==
  asked.made =>
    (chain # <<>> <=> (0 <= asked.index /\ asked.index < Len(tree.leaves)))

\* ------------------------------------------------------ joining chains
\* Two chains in the form get_proof returns, ((hex digest, idx), tag), are
\* drawn from a small set of digests and joined.
EndDigests == {DigestA, DigestAB, DigestABA}

SiblingDigests == {DigestA, DigestB}

MiddleEntries == {<<<<hex_encode(d), 0>>, s>> : d \in SiblingDigests, s \in {"L", "R", "SELF"}}

\* The chains of 2..MaxChain entries whose first entry carries idx i and whose
\* last entry carries idx j.
ChainsBetween(i, j) ==
  { <<<<<<hex_encode(a), i>>, "SELF">>>> \o m \o <<<<<<hex_encode(z), j>>, "ROOT">>>> :
      a \in EndDigests, z \in EndDigests,
      m \in SeqsUpTo(MiddleEntries, MaxChain - 2) }

JoinInit ==
  /\ \E j \in {0, 1} : low \in ChainsBetween(0, j)
  /\ \E i \in {0, 1} : high \in ChainsBetween(i, 0)
  /\ joined = [done |-> FALSE, chain |-> <<>>]
  /\ ServerIdle /\ TreeIdle

Join ==
  /\ ~joined.done
  /\ joined' = [done |-> TRUE, chain |-> join_chains(low, high)]
  /\ UNCHANGED <<low, high, serverVars, treeVars>>

JoinNext == Join

SpecJoin == JoinInit /\ [][JoinNext]_vars

Accepts(c) == c # <<>> /\ check_proof(c).status = "ok"

LastDigest(c) == c[Len(c)][1][1]

FirstDigest(c) == c[1][1][1]

====
